---- MODULE Spec2Model ----
(***************************************************************************)
(* State-machine model of search/api.py (edx-search): perform_search,      *)
(* process_range_data and course_discovery_search.                         *)
(*                                                                         *)
(* Time is counted in whole days.  One call of a function runs at one      *)
(* reading of the clock: every datetime.utcnow() of a call returns the     *)
(* value of the variable clock.                                            *)
(***************************************************************************)
EXTENDS Integers, Sequences, FiniteSets, TLC

\* ---------------------------------------------------------------- bounds
MaxClock == 1      \* the clock runs from 0 to MaxClock
MaxKeys == 2       \* keys of a raw facets.start.terms mapping
MaxItems == 2      \* result items of an envelope given to process_range_data
MaxRaw == 2        \* raw result items returned to perform_search

\* ------------------------------------------------------ program constants
Days30 == 30       \* timedelta(days=30)
FacetSize == 100   \* {'size': 100}

\* ---------------------------------------------------------- Python values
\* A value of a facet key or of a result field: None, a number, or a string.
\* A string is "", a label such as "current", or (text = "iso") an ISO-8601
\* timestamp showing the local time t with the UTC offset tz.
None == [kind |-> "none", text |-> "", t |-> 0, tz |-> 0]
Num(n) == [kind |-> "num", text |-> "", t |-> n, tz |-> 0]
Str(s) == [kind |-> "str", text |-> s, t |-> 0, tz |-> 0]
Iso(t, tz) == [kind |-> "str", text |-> "iso", t |-> t, tz |-> tz]

\* isinstance(v, (str, unicode, bytes, bytearray))
IsString(v) == v.kind = "str"

\* truth value of a string: the empty string is false
Truthy(v) == v.kind = "str" /\ v.text # ""

\* dateutil.parser.parse raises ValueError unless the string is a timestamp
Parses(v) == v.kind = "str" /\ v.text = "iso"

\* dateutil.parser.parse(v, ignoretz=True): the local time shown, the offset dropped
parse(v) == v.t

\* ---------------------------------------------------------- dictionaries
EmptyDict == [k \in {} |-> 0]

\* d[k] += v on a defaultdict(int)
AddTo(d, k, v) ==
  [x \in (DOMAIN d) \cup {k} |->
     (IF x \in DOMAIN d THEN d[x] ELSE 0) + (IF x = k THEN v ELSE 0)]

\* sum(d.values())
RECURSIVE SumValues(_)
SumValues(d) ==
  IF DOMAIN d = {} THEN 0
  ELSE LET k == CHOOSE x \in DOMAIN d : TRUE
       IN d[k] + SumValues([x \in (DOMAIN d) \ {k} |-> d[x]])

\* dictionary d restricted to the keys in S
Restrict(d, S) == [k \in (DOMAIN d) \cap S |-> d[k]]

\* d.update(e)
Update(d, e) == [k \in (DOMAIN d) \cup (DOMAIN e) |-> IF k \in DOMAIN e THEN e[k] ELSE d[k]]

\* d[k] = v
Set(d, k, v) == [x \in (DOMAIN d) \cup {k} |-> IF x = k THEN v ELSE d[x]]

\* d after d.pop(k, None)
Popped(d, k) == [x \in (DOMAIN d) \ {k} |-> d[x]]

\* ------------------------------------------- field and filter values
\* A value of a field dictionary is a string or a DateRange; a bound of a
\* DateRange is None (none = TRUE) or a time.
NoBound == [none |-> TRUE, t |-> 0]
At(t) == [none |-> FALSE, t |-> t]
DateRange(lower, upper) == [type |-> "DateRange", s |-> "", lower |-> lower, upper |-> upper]
Text(s) == [type |-> "str", s |-> s, lower |-> NoBound, upper |-> NoBound]
NoValue == [type |-> "none", s |-> "", lower |-> NoBound, upper |-> NoBound]

\* d.pop(k, None), the value
Get(d, k) == IF k \in DOMAIN d THEN d[k] ELSE NoValue

\* _format_filter(filter, missing_included)
format_filter(filter, missing_included) ==
  [value |-> filter, missing_included |-> missing_included]

CATALOG_VISIBILITY_CATALOG_AND_ABOUT == Text("both")

\* ------------------------------------------------- process_range_data
\* Classify with "key < now" for "key <= now": a key at now is 'soon'
ClassifyOffByOne(key, now) ==
  IF key < now - Days30 THEN "current"
  ELSE IF key < now THEN "new"
  ELSE IF key < now + Days30 THEN "soon"
  ELSE "future"

\* the if/elif chain that picks new_key for a parsed facet key
Classify(key, now) ==
  IF key < now - Days30 THEN "current"
  ELSE IF key <= now THEN "new"
  ELSE IF key < now + Days30 THEN "soon"
  ELSE "future"

\* The loop over start_terms.items().  A dict is walked in an order the code
\* does not control; the outcome does not depend on it, since nothing is
\* stored in results before the loop ends.
RECURSIVE StartLoop(_, _, _, _)
StartLoop(start_terms, todo, new_start_terms, now) ==
  IF todo = {} THEN [err |-> "none", terms |-> new_start_terms]
  ELSE LET key == CHOOSE k \in todo : TRUE
           rest == todo \ {key}
       IN IF ~IsString(key)
          THEN StartLoop(start_terms, rest, new_start_terms, now)
          ELSE IF ~Parses(key)
          THEN [err |-> "ValueError", terms |-> new_start_terms]
          ELSE StartLoop(start_terms, rest,
                         AddTo(new_start_terms, Str(Classify(parse(key), now)),
                               start_terms[key]),
                         now)

\* The loop over results['results'] of the status branch, from item i on.
RECURSIVE StatusLoop(_, _, _, _)
StatusLoop(items, i, status_terms, now) ==
  IF i > Len(items) THEN [err |-> "none", terms |-> status_terms]
  ELSE LET start_term == items[i].start
           end_term == items[i].end
       IN IF ~IsString(start_term)
          THEN StatusLoop(items, i + 1, status_terms, now)
          ELSE IF Truthy(start_term) /\ ~Parses(start_term)
          THEN [err |-> "ValueError", terms |-> status_terms]
          ELSE IF Truthy(start_term) /\ parse(start_term) <= now
          THEN IF ~IsString(end_term)
               THEN StatusLoop(items, i + 1, status_terms, now)
               ELSE IF Truthy(end_term) /\ ~Parses(end_term)
               THEN [err |-> "ValueError", terms |-> status_terms]
               ELSE IF Truthy(end_term) /\ parse(end_term) <= now
               THEN StatusLoop(items, i + 1, AddTo(status_terms, Str("past"), 1), now)
               ELSE StatusLoop(items, i + 1, AddTo(status_terms, Str("current"), 1), now)
          ELSE StatusLoop(items, i + 1, AddTo(status_terms, Str("future"), 1), now)

\* A facet of the envelope: present says whether facets holds the field,
\* hasTerms whether the facet holds a 'terms' mapping.
AbsentFacet == [present |-> FALSE, hasTerms |-> FALSE, terms |-> EmptyDict, total |-> 0]

\* StartBranch with the total taken over the raw terms, skipped keys included
StartBranchRawTotal(results, now) ==
  LET f == results.facets.start
      start_terms == IF f.present /\ f.hasTerms THEN f.terms ELSE EmptyDict
  IN IF DOMAIN start_terms = {}
     THEN [err |-> "none", results |-> results]
     ELSE LET r == StartLoop(start_terms, DOMAIN start_terms, EmptyDict, now)
          IN IF r.err # "none"
             THEN [err |-> r.err, results |-> results]
             ELSE [err |-> "none",
                   results |-> [results EXCEPT
                                  !.facets.start.terms = r.terms,
                                  !.facets.start.total = SumValues(start_terms)]]

\* the "start" branch
StartBranch(results, now) ==
  LET f == results.facets.start
      start_terms == IF f.present /\ f.hasTerms THEN f.terms ELSE EmptyDict
  IN IF DOMAIN start_terms = {}
     THEN [err |-> "none", results |-> results]
     ELSE LET r == StartLoop(start_terms, DOMAIN start_terms, EmptyDict, now)
          IN IF r.err # "none"
             THEN [err |-> r.err, results |-> results]
             ELSE [err |-> "none",
                   results |-> [results EXCEPT
                                  !.facets.start.terms = r.terms,
                                  !.facets.start.total = SumValues(r.terms)]]

\* the "status" branch
StatusBranch(results, now) ==
  LET r == StatusLoop(results.results, 1, EmptyDict, now)
  IN IF r.err # "none"
     THEN [err |-> r.err, results |-> results]
     ELSE IF ~results.facets.status.present
     THEN [err |-> "KeyError", results |-> results]
     ELSE [err |-> "none",
           results |-> [results EXCEPT
                          !.facets.status.hasTerms = TRUE,
                          !.facets.status.terms = r.terms,
                          !.facets.status.total = SumValues(r.terms)]]

\* process_range_data with "if" for "elif": the status branch runs after the
\* start branch
process_range_data_both(results, filter_fields, now) ==
  LET first == IF "start" \in filter_fields THEN StartBranch(results, now)
               ELSE [err |-> "none", results |-> results]
  IN IF first.err = "none" /\ "status" \in filter_fields
     THEN StatusBranch(first.results, now)
     ELSE first

\* process_range_data(results), with the configured filter fields and the clock
process_range_data(results, filter_fields, now) ==
  IF "start" \in filter_fields THEN StartBranch(results, now)
  ELSE IF "status" \in filter_fields THEN StatusBranch(results, now)
  ELSE [err |-> "none", results |-> results]

\* ---------------------------------------------------- perform_search
\* SearchResultProcessor.process_result on one raw item: the processed data,
\* or None when the processor denies access (allowed = FALSE)
ProcessResult(item) ==
  [data |-> IF item.allowed THEN Text(item.data) ELSE NoValue]

\* [r for r in s if r["data"] is not None], in order
RECURSIVE Kept(_)
Kept(s) ==
  IF s = <<>> THEN <<>>
  ELSE IF Head(s).data # NoValue THEN <<Head(s)>> \o Kept(Tail(s))
  ELSE Kept(Tail(s))

\* Denied counted after the results were filtered
DeniedAfterFilter(s) ==
  Cardinality({i \in 1..Len(Kept(s)) : Kept(s)[i].data = NoValue})

\* len([r for r in s if r["data"] is None])
RECURSIVE Denied(_)
Denied(s) ==
  IF s = <<>> THEN 0
  ELSE (IF Head(s).data = NoValue THEN 1 ELSE 0) + Denied(Tail(s))

\* perform_search: gen is what generate_field_filters returned, searcher
\* whether get_search_engine found an engine, raw the engine's result items
perform_search(gen, searcher, raw) ==
  IF ~searcher
  THEN [err |-> "NoSearchEngineError", sent |-> [none |-> TRUE], results |-> [none |-> TRUE]]
  ELSE LET filter_dictionary ==
             [k \in DOMAIN gen.filter_dictionary |->
                format_filter(gen.filter_dictionary[k], TRUE)]
           processed == [i \in 1..Len(raw) |-> ProcessResult(raw[i])]
       IN [err |-> "none",
           sent |-> [method |-> "search_string",
                     doc_type |-> "courseware_content",
                     field_dictionary |-> gen.field_dictionary,
                     filter_dictionary |-> filter_dictionary,
                     exclude_dictionary |-> gen.exclude_dictionary,
                     include_content |-> TRUE],
           results |-> [results |-> Kept(processed),
                        access_denied_count |-> Denied(processed)]]

\* -------------------------------------------- course_discovery_search
\* use_search_fields
UseSearchFields(kwargs) ==
  {"org"} \cup
  (IF kwargs.include_course_filter /\ kwargs.user # "none" /\ kwargs.user # "staff"
   THEN {"course"} ELSE {})

\* UseFieldDictionary with enrollment_start set before the override is merged
UseFieldDictionaryCallerWins(field_dictionary, kwargs, gen, skip, now) ==
  LET generated == Restrict(gen.field_dictionary, UseSearchFields(kwargs))
      dated == IF ~skip
               THEN Set(generated, "enrollment_start", DateRange(NoBound, At(now)))
               ELSE generated
  IN Update(dated, field_dictionary)

\* use_field_dictionary up to the engine lookup
UseFieldDictionary(field_dictionary, kwargs, gen, skip, now) ==
  LET generated == Restrict(gen.field_dictionary, UseSearchFields(kwargs))
      merged == Update(generated, field_dictionary)
  IN IF ~skip
     THEN Set(merged, "enrollment_start", DateRange(NoBound, At(now)))
     ELSE merged

\* StartFilter with the 'current' range ending at now
StartFilterCurrentToNow(start, now) ==
  IF start = Text("current")
  THEN "start" :> format_filter(DateRange(NoBound, At(now)), TRUE)
  ELSE IF start = Text("new")
  THEN "start" :> format_filter(DateRange(At(now - Days30), At(now)), TRUE)
  ELSE IF start = Text("soon")
  THEN "start" :> format_filter(DateRange(At(now), At(now + Days30)), TRUE)
  ELSE IF start = Text("future")
  THEN "start" :> format_filter(DateRange(At(now + Days30), NoBound), TRUE)
  ELSE EmptyDict

\* the filter a start bucket turns into (the if/elif chain on start)
StartFilter(start, now) ==
  IF start = Text("current")
  THEN "start" :> format_filter(DateRange(NoBound, At(now - Days30)), TRUE)
  ELSE IF start = Text("new")
  THEN "start" :> format_filter(DateRange(At(now - Days30), At(now)), TRUE)
  ELSE IF start = Text("soon")
  THEN "start" :> format_filter(DateRange(At(now), At(now + Days30)), TRUE)
  ELSE IF start = Text("future")
  THEN "start" :> format_filter(DateRange(At(now + Days30), NoBound), TRUE)
  ELSE EmptyDict

\* the filters a status turns into (the if/elif chain on status)
StatusFilter(status, now) ==
  IF status = Text("past")
  THEN "end" :> format_filter(DateRange(NoBound, At(now)), FALSE)
  ELSE IF status = Text("current")
  THEN ("start" :> format_filter(DateRange(NoBound, At(now)), TRUE))
       @@ ("end" :> format_filter(DateRange(At(now), NoBound), TRUE))
  ELSE IF status = Text("future")
  THEN "start" :> format_filter(DateRange(At(now), NoBound), TRUE)
  ELSE EmptyDict

\* FilterDictionary with the status handled before the start bucket
FilterDictionaryStartLast(fields, kwargs, now) ==
  LET enrollment ==
        IF kwargs.allow_enrollment_end_filter
        THEN "enrollment_end" :> format_filter(DateRange(At(now), NoBound), TRUE)
        ELSE EmptyDict
      with_status == Update(enrollment, StatusFilter(Get(fields, "status"), now))
  IN Update(with_status, StartFilter(Get(fields, "start"), now))

\* filter_dictionary as passed to the engine
FilterDictionary(fields, kwargs, now) ==
  LET enrollment ==
        IF kwargs.allow_enrollment_end_filter
        THEN "enrollment_end" :> format_filter(DateRange(At(now), NoBound), TRUE)
        ELSE EmptyDict
      with_start == Update(enrollment, StartFilter(Get(fields, "start"), now))
  IN Update(with_start, StatusFilter(Get(fields, "status"), now))

\* SentFieldDictionary with status left in the field dictionary
SentFieldDictionaryKeepsStatus(fields, catalog) ==
  LET popped == Popped(fields, "start")
  IN IF catalog
     THEN Set(popped, "catalog_visibility", CATALOG_VISIBILITY_CATALOG_AND_ABOUT)
     ELSE popped

\* use_field_dictionary as passed to the engine
SentFieldDictionary(fields, catalog) ==
  LET popped == Popped(Popped(fields, "start"), "status")
  IN IF catalog
     THEN Set(popped, "catalog_visibility", CATALOG_VISIBILITY_CATALOG_AND_ABOUT)
     ELSE popped

\* course_discovery_facets()
course_discovery_facets(filter_fields) == [f \in filter_fields |-> FacetSize]

\* course_discovery_search: cfg is django's settings, searcher whether an
\* engine was found, response the envelope the engine's search returns
course_discovery_search(field_dictionary, kwargs, gen, searcher, response, cfg, now) ==
  LET fields == UseFieldDictionary(field_dictionary, kwargs, gen,
                                   cfg.SEARCH_SKIP_ENROLLMENT_START_DATE_FILTERING, now)
      call == [method |-> "search",
               doc_type |-> "course_info",
               field_dictionary |->
                 SentFieldDictionary(fields, cfg.ALLOW_CATALOG_VISIBILITY_FILTER),
               filter_dictionary |-> FilterDictionary(fields, kwargs, now),
               exclude_dictionary |-> gen.exclude_dictionary,
               facet_terms |-> course_discovery_facets(cfg.COURSE_DISCOVERY_FILTERS)]
      r == process_range_data(response, cfg.COURSE_DISCOVERY_FILTERS, now)
  IN IF ~searcher
     THEN [err |-> "NoSearchEngineError", sent |-> [none |-> TRUE], results |-> [none |-> TRUE]]
     ELSE [err |-> r.err,
           sent |-> call,
           results |-> IF r.err = "none" THEN r.results ELSE [none |-> TRUE]]

\* ------------------------------------------------------------- inputs
\* timestamps that occur in the data
KeyTimes == {-31, -30, 0, 1, 30}

\* keys of a raw facets.start.terms mapping
RawKeys ==
  {Iso(t, 0) : t \in KeyTimes} \cup {Iso(1, 5), Num(0), Str("current")}

Counts == {1, 2}
RawTotals == {0, 3}

KeySets == {S \in SUBSET RawKeys : Cardinality(S) <= MaxKeys}
RawTerms == UNION {[S -> Counts] : S \in KeySets}

StartFacets ==
  {AbsentFacet}
  \cup {[present |-> TRUE, hasTerms |-> FALSE, terms |-> EmptyDict, total |-> n] :
          n \in RawTotals}
  \cup {[present |-> TRUE, hasTerms |-> TRUE, terms |-> d, total |-> n] :
          d \in RawTerms, n \in RawTotals}

StartVals == {None, Str(""), Str("soon"), Iso(-5, 0), Iso(1, 0)}
EndVals == {None, Str(""), Str("soon"), Iso(-1, 0), Iso(1, 0)}
ItemData ==
  {d \in [start : StartVals, end : EndVals] :
     \/ d.start = Iso(-5, 0)
     \/ d.end = Iso(-1, 0)
     \/ d.start = Iso(1, 0) /\ d.end \in {None, Iso(1, 0)}}

RECURSIVE SeqsUpTo(_, _)
SeqsUpTo(S, n) ==
  IF n = 0 THEN {<<>>}
  ELSE LET shorter == SeqsUpTo(S, n - 1)
       IN shorter \cup {Append(s, x) : s \in {q \in shorter : Len(q) = n - 1}, x \in S}

EmptyFacet == [present |-> TRUE, hasTerms |-> TRUE, terms |-> EmptyDict, total |-> 0]
OrgFacet ==
  [present |-> TRUE, hasTerms |-> TRUE,
   terms |-> [k \in {Str("edX")} |-> 2], total |-> 2]

Envelope(items, start, status) ==
  [results |-> items, facets |-> [start |-> start, status |-> status, org |-> OrgFacet]]

OneItem == <<[start |-> Iso(-5, 0), end |-> Iso(1, 0)]>>

\* envelopes an engine may return
Envelopes ==
  {Envelope(OneItem, f, EmptyFacet) : f \in StartFacets}
  \cup {Envelope(s, AbsentFacet, EmptyFacet) : s \in SeqsUpTo(ItemData, MaxItems)}
  \cup {Envelope(s, AbsentFacet, AbsentFacet) : s \in SeqsUpTo(ItemData, 1)}

\* what SearchFilterGenerator.generate_field_filters may return
Generated ==
  {[field_dictionary |-> EmptyDict, filter_dictionary |-> EmptyDict,
    exclude_dictionary |-> EmptyDict],
   [field_dictionary |->
      ("org" :> Text("genOrg")) @@ ("course" :> Text("genCourse"))
      @@ ("enrollment" :> Text("genEnrollment")),
    filter_dictionary |-> "start_date" :> DateRange(NoBound, At(0)),
    exclude_dictionary |-> "id" :> Text("hidden")]}

\* raw result items of a content search, each with the processor's verdict
RawItems == [data : {"a", "b"}, allowed : BOOLEAN]

\* field_dictionary overrides of a caller
StartParts == {EmptyDict} \cup {"start" :> Text(b) : b \in {"current", "new", "soon", "future", "bogus"}}
StatusParts == {EmptyDict} \cup {"status" :> Text(b) : b \in {"past", "current", "future", "bogus"}}
Extras ==
  ("org" :> Text("callerOrg")) @@ ("course" :> Text("callerCourse"))
  @@ ("enrollment_start" :> DateRange(NoBound, At(-5)))
  @@ ("catalog_visibility" :> Text("about"))
ExtraParts ==
  {Restrict(Extras, S) : S \in {T \in SUBSET DOMAIN Extras : Cardinality(T) <= 1 \/ T = DOMAIN Extras}}
Overrides ==
  {Update(Update(a, b), c) : a \in StartParts, b \in StatusParts, c \in ExtraParts}

\* keyword arguments of a course_discovery_search call
Kwargs ==
  {[include_course_filter |-> FALSE, user |-> "none", allow_enrollment_end_filter |-> FALSE],
   [include_course_filter |-> TRUE, user |-> "student", allow_enrollment_end_filter |-> TRUE],
   [include_course_filter |-> TRUE, user |-> "staff", allow_enrollment_end_filter |-> FALSE]}

\* envelopes the engine returns to course_discovery_search
DiscoveryResponses ==
  {Envelope(OneItem,
            [present |-> TRUE, hasTerms |-> TRUE,
             terms |-> (Iso(0, 0) :> 2) @@ (Iso(30, 0) :> 1), total |-> 3],
            EmptyFacet),
   Envelope(<<[start |-> Str("soon"), end |-> None]>>,
            [present |-> TRUE, hasTerms |-> TRUE,
             terms |-> (Str("current") :> 1), total |-> 1],
            EmptyFacet)}

FilterFieldSets == {{"org"}, {"org", "start"}, {"org", "status"}, {"org", "start", "status"}}

Settings ==
  [COURSE_DISCOVERY_FILTERS : FilterFieldSets,
   SEARCH_SKIP_ENROLLMENT_START_DATE_FILTERING : BOOLEAN,
   ALLOW_CATALOG_VISIBILITY_FILTER : BOOLEAN]

\* -------------------------------------------------------------- state
VARIABLES
  clock,     \* datetime.utcnow()
  settings,  \* django.conf.settings
  pc,        \* "idle", or "done" after a call
  op,        \* the function called last
  arg,       \* what it was called with
  sent,      \* what it passed to the search engine
  ret,       \* the envelope it returned
  err        \* the exception it raised, or "none"

vars == <<clock, settings, pc, op, arg, sent, ret, err>>

Nothing == [none |-> TRUE]

Init ==
  /\ clock \in 0..MaxClock
  /\ settings \in Settings
  /\ pc = "idle"
  /\ op = "none"
  /\ arg = Nothing
  /\ sent = Nothing
  /\ ret = Nothing
  /\ err = "none"

\* course_discovery_filter_fields()
course_discovery_filter_fields == settings.COURSE_DISCOVERY_FILTERS

\* time passes between calls
Tick ==
  /\ pc = "idle"
  /\ clock < MaxClock
  /\ clock' = clock + 1
  /\ UNCHANGED <<settings, pc, op, arg, sent, ret, err>>

\* a caller calls process_range_data(results)
CallProcessRangeData ==
  /\ pc = "idle"
  /\ \E results \in Envelopes :
       LET r == process_range_data(results, course_discovery_filter_fields, clock)
       IN /\ arg' = results
          /\ ret' = IF r.err = "none" THEN r.results ELSE Nothing
          /\ err' = r.err
  /\ op' = "process_range_data"
  /\ pc' = "done"
  /\ sent' = Nothing
  /\ UNCHANGED <<clock, settings>>

\* a caller calls perform_search
CallPerformSearch ==
  /\ pc = "idle"
  /\ \E gen \in Generated, searcher \in BOOLEAN, raw \in SeqsUpTo(RawItems, MaxRaw) :
       LET r == perform_search(gen, searcher, raw)
       IN /\ arg' = IF searcher THEN [gen |-> gen, raw |-> raw] ELSE Nothing
          /\ sent' = r.sent
          /\ ret' = r.results
          /\ err' = r.err
  /\ op' = "perform_search"
  /\ pc' = "done"
  /\ UNCHANGED <<clock, settings>>

\* a caller calls course_discovery_search
CallCourseDiscoverySearch ==
  /\ pc = "idle"
  /\ \E field_dictionary \in Overrides, kwargs \in Kwargs, gen \in Generated,
        searcher \in BOOLEAN, response \in DiscoveryResponses :
       LET r == course_discovery_search(field_dictionary, kwargs, gen, searcher,
                                        response, settings, clock)
       IN /\ arg' = IF searcher
                    THEN [field_dictionary |-> field_dictionary, kwargs |-> kwargs,
                          gen |-> gen, response |-> response]
                    ELSE Nothing
          /\ sent' = r.sent
          /\ ret' = r.results
          /\ err' = r.err
  /\ op' = "course_discovery_search"
  /\ pc' = "done"
  /\ UNCHANGED <<clock, settings>>

\* the caller takes the result; the next call starts afresh
Return ==
  /\ pc = "done"
  /\ pc' = "idle"
  /\ op' = "none"
  /\ arg' = Nothing
  /\ sent' = Nothing
  /\ ret' = Nothing
  /\ err' = "none"
  /\ UNCHANGED <<clock, settings>>

Next ==
  \/ Tick
  \/ CallProcessRangeData
  \/ CallPerformSearch
  \/ CallCourseDiscoverySearch
  \/ Return

Spec == Init /\ [][Next]_vars

\* ------------------------------------------------------ views of a call
\* process_range_data has been called: by a caller, or by
\* course_discovery_search on the envelope the engine returned
PrdCalled ==
  /\ pc = "done"
  /\ op \in {"process_range_data", "course_discovery_search"}
  /\ err # "NoSearchEngineError"

\* the envelope it was given
PrdIn == IF op = "process_range_data" THEN arg ELSE arg.response

\* it returned (ret is the envelope returned)
PrdReturned == PrdCalled /\ err = "none"

StartConfigured == "start" \in settings.COURSE_DISCOVERY_FILTERS
StatusConfigured == "status" \in settings.COURSE_DISCOVERY_FILTERS

\* course_discovery_search has called the engine (sent is what it passed)
EngineCalled ==
  /\ pc = "done"
  /\ op = "course_discovery_search"
  /\ err # "NoSearchEngineError"

\* the count of a bucket in a terms mapping, 0 when the bucket is not a key
CountOf(terms, label) == IF Str(label) \in DOMAIN terms THEN terms[Str(label)] ELSE 0

\* the sum of the counts of the keys in S
Tally(terms, S) == SumValues(Restrict(terms, S))

StartBuckets == {"current", "new", "soon", "future"}
StatusBuckets == {"past", "current", "future"}

\* the raw start terms were non-empty, so the start facet was reclassified
StartReclassified ==
  /\ StartConfigured
  /\ PrdIn.facets.start.present
  /\ PrdIn.facets.start.hasTerms
  /\ DOMAIN PrdIn.facets.start.terms # {}

\* the timestamps around now that the claims are checked on
Window == (clock - 32)..(clock + 32)

\* --------------------------------------------------------------- C1
\* the four bucket predicates of the start facet
InBucket(b, t, now) ==
  CASE b = "current" -> t < now - 30
    [] b = "new" -> now - 30 <= t /\ t <= now
    [] b = "soon" -> now < t /\ t < now + 30
    [] b = "future" -> t >= now + 30

\* C1: after the start reclassification every bucket holds the sum of the
\* counts of the raw timestamps t with: t < now-30d for 'current',
\* now-30d <= t <= now for 'new', now < t < now+30d for 'soon',
\* t >= now+30d for 'future'; no other bucket exists; and every timestamp
\* satisfies exactly one of the four predicates.
C1_StartBuckets ==
  /\ \A t \in Window :
       Cardinality({b \in StartBuckets : InBucket(b, t, clock)}) = 1
  /\ (PrdReturned /\ StartReclassified) =>
       LET raw == PrdIn.facets.start.terms
           new == ret.facets.start.terms
       IN /\ DOMAIN new \subseteq {Str(b) : b \in StartBuckets}
          /\ \A b \in StartBuckets :
               CountOf(new, b) =
                 Tally(raw, {k \in DOMAIN raw : Parses(k) /\ InBucket(b, parse(k), clock)})

\* a raw key at now and one at now-30d were both counted as 'new'
C1_Witness ==
  /\ PrdReturned /\ StartReclassified
  /\ DOMAIN PrdIn.facets.start.terms = {Iso(clock, 0), Iso(clock - 30, 0)}
  /\ DOMAIN ret.facets.start.terms = {Str("new")}

\* --------------------------------------------------------------- C2
\* the status of an item as the claim gives it
ClaimStatus(d, now) ==
  IF ~Parses(d.start) THEN "skipped"
  ELSE IF parse(d.start) <= now
  THEN (IF ~Parses(d.end) THEN "skipped"
        ELSE IF parse(d.end) <= now THEN "past" ELSE "current")
  ELSE "future"

NumberOf(items, b, now) ==
  Cardinality({i \in 1..Len(items) : ClaimStatus(items[i], now) = b})

\* the status branch ran on an envelope that holds facets.status
StatusRan ==
  /\ PrdCalled
  /\ ~StartConfigured /\ StatusConfigured
  /\ PrdIn.facets.status.present

\* C2: the status reclassification returns, and counts every item once in
\* the bucket the table gives: start absent or non-parseable -> none;
\* start <= now and end absent or non-parseable -> none; start <= now and
\* end <= now -> 'past'; start <= now and end > now -> 'current';
\* start > now -> 'future'.
C2_StatusTable ==
  StatusRan =>
    /\ err = "none"
    /\ \A b \in StatusBuckets :
         CountOf(ret.facets.status.terms, b) = NumberOf(PrdIn.results, b, clock)

\* --------------------------------------------------------------- C3
\* C3 as stated: after process_range_data the total of the reclassified
\* facet is the sum of the counts of its terms, also when the raw terms
\* mapping is empty or missing.
C3_TotalIsSum ==
  PrdReturned =>
    /\ (StartConfigured /\ PrdIn.facets.start.present) =>
         ret.facets.start.total = SumValues(ret.facets.start.terms)
    /\ (~StartConfigured /\ StatusConfigured) =>
         ret.facets.status.total = SumValues(ret.facets.status.terms)

\* C3 as amended: the total is the sum of the counts of the terms when the
\* raw facets.start.terms mapping is non-empty, and in the status branch;
\* with an empty or missing raw start terms mapping facets.start is left as
\* the engine returned it.
C3_TotalIsSumWhenReclassified ==
  PrdReturned =>
    /\ StartReclassified =>
         ret.facets.start.total = SumValues(ret.facets.start.terms)
    /\ (StartConfigured /\ ~StartReclassified) =>
         ret.facets.start = PrdIn.facets.start
    /\ (~StartConfigured /\ StatusConfigured) =>
         ret.facets.status.total = SumValues(ret.facets.status.terms)

\* a raw key was skipped, so the new total is below the sum of the raw counts
C3_Witness ==
  /\ PrdReturned /\ StartReclassified
  /\ ret.facets.start.total > 0
  /\ ret.facets.start.total < SumValues(PrdIn.facets.start.terms)
  /\ ret.facets.start.total # PrdIn.facets.start.total

\* --------------------------------------------------------------- C4
\* t lies strictly inside the range
StrictlyInside(t, range) ==
  /\ range.lower.none \/ range.lower.t < t
  /\ range.upper.none \/ t < range.upper.t

\* the caller asked for start bucket b and no status replaced the range
StartAsked(b) ==
  /\ EngineCalled
  /\ Get(arg.field_dictionary, "start") = Text(b)
  /\ Get(arg.field_dictionary, "status") \notin {Text("current"), Text("future")}

\* C4: every timestamp strictly inside the DateRange built for start bucket
\* b is classified as b by the start reclassification, against the same now.
C4_RoundTrip ==
  \A b \in StartBuckets :
    StartAsked(b) =>
      /\ "start" \in DOMAIN sent.filter_dictionary
      /\ sent.filter_dictionary["start"].value.type = "DateRange"
      /\ \E t \in Window :
           StrictlyInside(t, sent.filter_dictionary["start"].value)
      /\ \A t \in Window :
           StrictlyInside(t, sent.filter_dictionary["start"].value) =>
             Classify(t, clock) = b

\* the range built for 'new' was passed to the engine
C4_Witness ==
  /\ StartAsked("new")
  /\ StrictlyInside(clock - 1, sent.filter_dictionary["start"].value)
  /\ ~StrictlyInside(clock, sent.filter_dictionary["start"].value)

\* --------------------------------------------------------------- C5
StartKnown == Get(arg.field_dictionary, "start") \in {Text(b) : b \in StartBuckets}
StatusKnown == Get(arg.field_dictionary, "status") \in {Text(b) : b \in StatusBuckets}

\* C5: with status='current' the engine gets a 'start' filter with the range
\* (None, now) and an 'end' filter with the range (now, None); 'start' and
\* 'status' are never keys of the field dictionary the engine gets; an
\* unknown or absent start or status adds no filter.
C5_StatusCurrentFilters ==
  EngineCalled =>
    /\ Get(arg.field_dictionary, "status") = Text("current") =>
         /\ {"start", "end"} \subseteq DOMAIN sent.filter_dictionary
         /\ sent.filter_dictionary["start"].value = DateRange(NoBound, At(clock))
         /\ sent.filter_dictionary["end"].value = DateRange(At(clock), NoBound)
    /\ DOMAIN sent.field_dictionary \cap {"start", "status"} = {}
    /\ (~StartKnown /\ ~StatusKnown) =>
         DOMAIN sent.filter_dictionary \cap {"start", "end"} = {}
    /\ (~StartKnown /\ Get(arg.field_dictionary, "status") = Text("past")) =>
         "start" \notin DOMAIN sent.filter_dictionary
    /\ ~StatusKnown => "end" \notin DOMAIN sent.filter_dictionary

\* the caller gave status='current' alone
C5_Witness ==
  /\ EngineCalled
  /\ DOMAIN arg.field_dictionary = {"status"}
  /\ arg.field_dictionary["status"] = Text("current")
  /\ DOMAIN sent.filter_dictionary = {"start", "end"}

\* --------------------------------------------------------------- C6
\* C6: access_denied_count + len(results) = len(raw results); the results
\* are the raw items the processor did not deny, once each, in the raw
\* order, and access_denied_count is the number of the denied ones.
C6_DeniedPlusKept ==
  (pc = "done" /\ op = "perform_search" /\ err = "none") =>
    LET allowed == SelectSeq(arg.raw, LAMBDA r : r.allowed)
    IN /\ ret.access_denied_count + Len(ret.results) = Len(arg.raw)
       /\ ret.results = [i \in 1..Len(allowed) |-> [data |-> Text(allowed[i].data)]]
       /\ ret.access_denied_count =
            Cardinality({i \in 1..Len(arg.raw) : ~arg.raw[i].allowed})

\* one raw item was denied and one was kept
C6_Witness ==
  /\ pc = "done" /\ op = "perform_search" /\ err = "none"
  /\ Len(arg.raw) = 2
  /\ ret.access_denied_count = 1
  /\ Len(ret.results) = 1

\* --------------------------------------------------------------- C7
\* C7: a value that is no string, and a string that does not parse as a
\* timestamp, are skipped during bucketing: process_range_data returns, the
\* value is counted in no bucket, and the other terms and items are counted.
C7_MalformedSkipped ==
  /\ (PrdCalled /\ StartReclassified) =>
       /\ err = "none"
       /\ \A b \in StartBuckets :
            CountOf(ret.facets.start.terms, b) =
              Tally(PrdIn.facets.start.terms,
                    {k \in DOMAIN PrdIn.facets.start.terms :
                       Parses(k) /\ Classify(parse(k), clock) = b})
  /\ StatusRan =>
       /\ err = "none"
       /\ ret.facets.status.total =
            Cardinality({i \in 1..Len(PrdIn.results) :
                           /\ Parses(PrdIn.results[i].start)
                           /\ parse(PrdIn.results[i].start) <= clock =>
                                Parses(PrdIn.results[i].end)})

\* --------------------------------------------------------------- C8
\* C8: with neither 'start' nor 'status' configured the envelope is returned
\* as given; with 'start' configured only the terms and the total of
\* facets.start may differ, also when 'status' is configured; with 'status'
\* configured and 'start' not, only the terms and the total of facets.status
\* may differ.
C8_Frame ==
  PrdReturned =>
    /\ (~StartConfigured /\ ~StatusConfigured) => ret = PrdIn
    /\ StartConfigured =>
         ret = [PrdIn EXCEPT !.facets.start.terms = ret.facets.start.terms,
                             !.facets.start.total = ret.facets.start.total]
    /\ (~StartConfigured /\ StatusConfigured) =>
         ret = [PrdIn EXCEPT !.facets.status.terms = ret.facets.status.terms,
                             !.facets.status.total = ret.facets.status.total]
    /\ ret.results = PrdIn.results
    /\ ret.facets.org = PrdIn.facets.org

\* both fields are configured, facets.start was reclassified, and the
\* envelope holds an item the status branch would count
C8_Witness ==
  /\ PrdReturned /\ StartReclassified /\ StatusConfigured
  /\ ret.facets.start # PrdIn.facets.start
  /\ \E b \in StatusBuckets : NumberOf(PrdIn.results, b, clock) > 0
  /\ ret.facets.status = PrdIn.facets.status

\* --------------------------------------------------------------- C9
Skip == settings.SEARCH_SKIP_ENROLLMENT_START_DATE_FILTERING

\* the enrollment_start part of C9
EnrollmentStartRule ==
  /\ ~Skip =>
       /\ "enrollment_start" \in DOMAIN sent.field_dictionary
       /\ sent.field_dictionary["enrollment_start"] = DateRange(NoBound, At(clock))
  /\ Skip =>
       /\ "enrollment_start" \in DOMAIN sent.field_dictionary
            <=> "enrollment_start" \in DOMAIN arg.field_dictionary
       /\ "enrollment_start" \in DOMAIN arg.field_dictionary =>
            sent.field_dictionary["enrollment_start"]
              = arg.field_dictionary["enrollment_start"]

\* the keys of the override other than enrollment_start and the two
\* pseudo-fields that are turned into filters
OtherKeys == (DOMAIN arg.field_dictionary) \ {"enrollment_start", "start", "status"}

\* C9 as stated: enrollment_start is (None, now) unless the policy skips it,
\* and then a caller's value is passed as given; every other key of the
\* override reaches the engine with the caller's value.
C9_OverridePassedThrough ==
  EngineCalled =>
    /\ EnrollmentStartRule
    /\ \A k \in OtherKeys :
         /\ k \in DOMAIN sent.field_dictionary
         /\ sent.field_dictionary[k] = arg.field_dictionary[k]

\* C9 as amended: as stated, except that with ALLOW_CATALOG_VISIBILITY_FILTER
\* set the engine gets catalog_visibility = "both" whatever the caller gave.
C9_OverrideExceptCatalogVisibility ==
  EngineCalled =>
    /\ EnrollmentStartRule
    /\ \A k \in OtherKeys :
         /\ k \in DOMAIN sent.field_dictionary
         /\ sent.field_dictionary[k] =
              IF k = "catalog_visibility" /\ settings.ALLOW_CATALOG_VISIBILITY_FILTER
              THEN Text("both")
              ELSE arg.field_dictionary[k]
    /\ settings.ALLOW_CATALOG_VISIBILITY_FILTER =>
         /\ "catalog_visibility" \in DOMAIN sent.field_dictionary
         /\ sent.field_dictionary["catalog_visibility"] = Text("both")

\* the caller set enrollment_start, org and course itself, the generator
\* gave org and course too, and the policy does not skip the filter
C9_Witness ==
  /\ EngineCalled
  /\ ~Skip
  /\ {"enrollment_start", "org", "course"} \subseteq DOMAIN arg.field_dictionary
  /\ {"org", "course"} \subseteq DOMAIN arg.gen.field_dictionary
  /\ arg.kwargs.include_course_filter /\ arg.kwargs.user = "student"
  /\ arg.field_dictionary["enrollment_start"] # DateRange(NoBound, At(clock))
  /\ sent.field_dictionary["org"] = Text("callerOrg")
  /\ sent.field_dictionary["course"] = Text("callerCourse")

\* -------------------------------------------------------------- C10
\* the range of a start bucket, as the inverse mapping gives it
BucketRange(b, now) ==
  CASE b = "current" -> DateRange(NoBound, At(now - 30))
    [] b = "new" -> DateRange(At(now - 30), At(now))
    [] b = "soon" -> DateRange(At(now), At(now + 30))
    [] b = "future" -> DateRange(At(now + 30), NoBound)

\* C10: with a start bucket and a status in the override the engine gets
\* one 'start' filter: the status-derived range for status current or
\* future, the start-bucket range for status past or an unknown status, and
\* for past the 'end' filter (None, now) with missing_included = false.
C10_StatusOverridesStart ==
  \A b \in StartBuckets :
    (/\ EngineCalled
     /\ Get(arg.field_dictionary, "start") = Text(b)
     /\ "status" \in DOMAIN arg.field_dictionary) =>
      LET status == arg.field_dictionary["status"]
          filters == sent.filter_dictionary
      IN /\ "start" \in DOMAIN filters
         /\ filters["start"].missing_included
         /\ filters["start"].value =
              IF status = Text("current") THEN DateRange(NoBound, At(clock))
              ELSE IF status = Text("future") THEN DateRange(At(clock), NoBound)
              ELSE BucketRange(b, clock)
         /\ status = Text("past") =>
              /\ "end" \in DOMAIN filters
              /\ filters["end"] = [value |-> DateRange(NoBound, At(clock)),
                                   missing_included |-> FALSE]
         /\ ~StatusKnown => "end" \notin DOMAIN filters

\* start='new' with status='current': the status range was passed, the
\* bucket range was not
C10_Witness ==
  /\ EngineCalled
  /\ Get(arg.field_dictionary, "start") = Text("new")
  /\ Get(arg.field_dictionary, "status") = Text("current")
  /\ sent.filter_dictionary["start"].value = DateRange(NoBound, At(clock))
  /\ sent.filter_dictionary["start"].value # BucketRange("new", clock)
====
